---- MODULE Spec2Model ----
(***************************************************************************)
(* Model of the webhook handler of src/main.py (receive_update) and of the *)
(* per-chat dictionary user_state it reads and writes.                     *)
(*                                                                         *)
(* Every inbound update is handled by one asynchronous task.  A task runs  *)
(* without interruption from one `await` to the next; at an `await` other  *)
(* tasks (of the same chat or of another chat) may run.  One action of the *)
(* model is one such uninterrupted piece of receive_update.                *)
(*                                                                         *)
(* Strings are sequences of chunks: "job_#ST-10021 " is                    *)
(* <<"job", "_", "#ST-10021", " ">>.  startswith, split, strip and lower   *)
(* are operators on these sequences.                                       *)
(***************************************************************************)
EXTENDS Integers, Sequences, FiniteSets, TLC

VARIABLES
    user_state,     \* chat_id -> session record (main.py:16)
    openai_client,  \* TRUE iff OPENAI_API_KEY was set at start-up (main.py:27)
    tasks,          \* slot -> the task handling one update, or NoTask
    batch,          \* history: for each chat, the updates since it was last quiet
    reply           \* history: the response of the latest request that ended

vars == <<user_state, openai_client, tasks, batch, reply>>

(***************************************************************************)
(* Bounds of the model.                                                    *)
(***************************************************************************)
\* number of updates that may be in flight (suspended at an await) at once
MaxTasks == 2

Chats == {"chatA", "chatB"}
Slots == 1..MaxTasks

\* the summaries the language service may answer with
Summaries == {"summary1", "summary2"}

(***************************************************************************)
(* Strings.                                                                *)
(***************************************************************************)
Missing == "<missing>"          \* a dictionary key that is not there
NoJob == <<Missing>>

ADMIN_PHONE_NUMBER == <<"+", "12865471304">>

StartsWith(s, p) ==
    /\ Len(s) >= Len(p)
    /\ SubSeq(s, 1, Len(p)) = p

\* the index of the first "_" of s at or after i, or Len(s) + 1
RECURSIVE NextSep(_, _)
NextSep(s, i) ==
    IF i > Len(s) THEN Len(s) + 1
    ELSE IF s[i] = "_" THEN i
    ELSE NextSep(s, i + 1)

\* s.split("_")[1]: the piece between the first and the second "_"
SplitSecond(s) ==
    LET a == NextSep(s, 1)
        b == NextSep(s, a + 1)
    IN  SubSeq(s, a + 1, b - 1)

RECURSIVE StripLeft(_)
StripLeft(s) ==
    IF s # <<>> /\ Head(s) = " " THEN StripLeft(Tail(s)) ELSE s

RECURSIVE StripRight(_)
StripRight(s) ==
    IF s # <<>> /\ s[Len(s)] = " " THEN StripRight(SubSeq(s, 1, Len(s) - 1)) ELSE s

\* s.strip()
Strip(s) == StripRight(StripLeft(s))

LowerChunk(w) ==
    CASE w = "View" -> "view"
      [] w = "Jobs" -> "jobs"
      [] w = "Restart" -> "restart"
      [] w = "Finish" -> "finish"
      [] OTHER -> w

\* s.lower()
Lower(s) == [i \in 1..Len(s) |-> LowerChunk(s[i])]

\* p in s
Contains(s, p) ==
    \E i \in 1..(Len(s) - Len(p) + 1) : SubSeq(s, i, i + Len(p) - 1) = p

view_jobs_triggers ==
    { <<"view", " ", "jobs">>,
      <<"show", " ", "my", " ", "schedule">>,
      <<"what", " ", "are", " ", "the", " ", "tasks">>,
      <<"job", " ", "list">>,
      <<"schedule">>,
      <<"jobs">> }

(***************************************************************************)
(* The data of the program.                                                *)
(***************************************************************************)
\* the catalog a new session gets: each entry is "<id> | <address and task>"
get_initial_jobs ==
    << <<"Job 101", " | ", "123 Main St - Pipe Leak">>,
       <<"Job 102", " | ", "456 Oak Ave - Water Heater">>,
       <<"Job 103", " | ", "789 Pine Rd - Clogged Drain">>,
       <<"Job 104", " | ", "321 Elm St - Toilet Repair">>,
       <<"Job 105", " | ", "654 Maple Dr - Faucet Replacement">> >>

\* the ids of the jobs of a catalog
CatalogIds(jobs) == { <<jobs[i][1]>> : i \in DOMAIN jobs }

\* the ids of jobs_data, the schedule shown by "View Jobs"
jobs_data ==
    << <<"#ST-10021">>, <<"#ST-10022">>, <<"#ST-10023">>, <<"#ST-10024">>, <<"#ST-10025">> >>

\* callback_data of the button attached to a job of the schedule
JobButton(id) == <<"job", "_">> \o id \o <<" ">>

\* user_state.get(chat_id, {}) of a chat that is not in the dictionary
NoSession ==
    [present |-> FALSE, jobs |-> <<>>, status |-> Missing,
     selected_job |-> NoJob, current_summary |-> Missing]


\* the record the job button creates for an unseen chat (main.py:94)
JobsOnlySession ==
    [present |-> TRUE, jobs |-> get_initial_jobs, status |-> Missing,
     selected_job |-> NoJob, current_summary |-> Missing]

\* the record a text message creates for an unseen chat (main.py:254-257)
NewSession ==
    [present |-> TRUE, jobs |-> get_initial_jobs, status |-> "active",
     selected_job |-> NoJob, current_summary |-> Missing]

(***************************************************************************)
(* Inbound updates.                                                        *)
(***************************************************************************)
Callback(data) ==
    [type |-> "callback", data |-> data, voice |-> FALSE, contact |-> <<>>, text |-> <<>>]

\* contact = <<>>: the message has no "contact"; text = <<>>: no "text"
Message(voice, contact, text) ==
    [type |-> "message", data |-> <<>>, voice |-> voice, contact |-> contact, text |-> text]

Callbacks ==
    { Callback(JobButton(jobs_data[1])),
      Callback(JobButton(jobs_data[2])),
      Callback(<<"confirm", "_", "job">>),
      Callback(<<"retry", "_", "job">>),
      Callback(<<>>) }

Messages ==
    { Message(TRUE, <<>>, <<>>),
      Message(TRUE, <<"12865471304">>, <<>>),
      Message(FALSE, <<>>, <<"/start">>),
      Message(FALSE, <<>>, <<"View", " ", "Jobs">>),
      Message(FALSE, <<>>, <<"Restart">>),
      Message(FALSE, <<>>, ADMIN_PHONE_NUMBER),
      Message(FALSE, ADMIN_PHONE_NUMBER, <<>>),
      Message(FALSE, <<"12865471304">>, <<"/start">>) }

Updates == Callbacks \cup Messages

\* contact_number after main.py:128-133
ContactNumber(u) ==
    IF u.contact # <<>> /\ ~StartsWith(u.contact, <<"+">>)
    THEN <<"+">> \o u.contact
    ELSE u.contact

\* the update carries an identity claim equal to the configured admin identity
AdminClaim(u) ==
    /\ u.type = "message"
    /\ \/ ContactNumber(u) = ADMIN_PHONE_NUMBER
       \/ u.text = ADMIN_PHONE_NUMBER

\* the branch of receive_update that handles u, in the order the code tests
Branch(u) ==
    IF u.type = "callback" THEN
        IF StartsWith(u.data, <<"job", "_">>) THEN "job"
        ELSE IF u.data = <<"confirm", "_", "job">> THEN "confirm"
        ELSE IF u.data = <<"retry", "_", "job">> THEN "retry"
        ELSE "ignored"
    ELSE IF u.voice THEN "voice"
    ELSE IF AdminClaim(u) THEN "admin"
    ELSE IF StartsWith(u.text, <<"/start">>) THEN "start"
    ELSE IF \E t \in view_jobs_triggers : Contains(Lower(u.text), t) THEN "view_jobs"
    ELSE "pass"

(***************************************************************************)
(* Outbound actions: the calls of send_telegram_message.                   *)
(***************************************************************************)
Msg(kind, arg, markup) == [kind |-> kind, arg |-> arg, markup |-> markup]

VoicePrompt(job_id) == Msg("voice_prompt", job_id, "none")
ConfirmedAck == Msg("confirmed", <<>>, "none")
RecordAgain == Msg("record_again", <<>>, "none")
VoiceReceived == Msg("voice_received", <<>>, "none")
FileInfoFailed == Msg("file_info_failed", <<>>, "none")
KeyMissing == Msg("key_missing", <<>>, "none")
ProcessingError == Msg("processing_error", <<>>, "none")
Draft(summary) == Msg("draft", <<summary>>, "confirm_retry")
SelectJobFirst == Msg("select_job_first", <<>>, "none")
AdminNotice == Msg("admin_notice", <<>>, "remove_keyboard")
Welcome == Msg("welcome", <<>>, "menu_keyboard")
JobsHeading == Msg("jobs_heading", <<>>, "none")
JobItem(idx) == Msg("job_item", jobs_data[idx], "job_button")
JobsFollowUp == Msg("jobs_follow_up", <<>>, "none")

FailureNotices == {FileInfoFailed, KeyMissing, ProcessingError}

(***************************************************************************)
(* Tasks.                                                                  *)
(***************************************************************************)
NoUpdate == Callback(<<Missing>>)

\* job is history, read by no action: see JobAtSubmission
NoTask ==
    [pc |-> "free", chat |-> Missing, upd |-> NoUpdate, idx |-> 0,
     tmp |-> "none", sent |-> <<>>, job |-> NoJob]

\* a task of chat c suspended in send_telegram_message(m)
Sending(c, u, pc, m) ==
    [pc |-> pc, chat |-> c, upd |-> u, idx |-> 0, tmp |-> "none", sent |-> <<m>>,
     job |-> NoJob]

Send(t, pc, m) == [t EXCEPT !.pc = pc, !.sent = Append(@, m)]

Free(h) == tasks[h].pc = "free"

\* the slot a new task takes
FreeSlot == CHOOSE h \in Slots : Free(h) /\ \A g \in Slots : Free(g) => h <= g

CanReceive == \E h \in Slots : Free(h)

\* reply is history, kept only when batch.on and read by no action: the
\* response the platform got to the latest request that ended
\* receive_update reaches its first await: nothing is answered yet
Start(t) ==
    /\ tasks' = [tasks EXCEPT ![FreeSlot] = t]
    /\ UNCHANGED reply

\* receive_update returns {"ok": True} before any await (main.py:120, 332)
ReturnAtOnce ==
    /\ UNCHANGED tasks
    /\ reply' = IF batch.on THEN "ack" ELSE reply

\* task h runs on to its next await as t
Continue(h, t) ==
    /\ tasks' = [tasks EXCEPT ![h] = t]
    /\ UNCHANGED reply

\* task h returns {"ok": True} (ok), or an exception leaves receive_update and
\* the platform gets an error response
Finish(h, ok) ==
    /\ tasks' = [tasks EXCEPT ![h] = NoTask]
    /\ reply' = IF ~batch.on THEN reply ELSE IF ok THEN "ack" ELSE "error"

TypeOK ==
    /\ openai_client \in BOOLEAN
    /\ DOMAIN user_state = Chats
    /\ DOMAIN tasks = Slots
    /\ \A c \in Chats :
        user_state[c].status \in
            {Missing, "active", "awaiting_voice", "awaiting_confirmation", "confirmed"}

Init ==
    /\ user_state = [c \in Chats |-> NoSession]
    /\ openai_client \in BOOLEAN
    /\ tasks = [h \in Slots |-> NoTask]
    /\ batch = [on |-> FALSE, base |-> [c \in Chats |-> NoSession], count |-> [c \in Chats |-> 0]]
    /\ reply = "none"


(***************************************************************************)
(* What each branch of receive_update writes to the session of the chat.   *)
(***************************************************************************)
\* JobIdOf without the strip(): the blank that ends callback_data stays
JobIdOf_NoStrip(data) == SplitSecond(data)

\* main.py:90: job_id = data.split("_")[1].strip()
JobIdOf(data) == Strip(SplitSecond(data))

\* SelectJob without main.py:96: the job is recorded, the status is not set
SelectJob_StatusNotSet(s, job_id) ==
    [(IF s.present THEN s ELSE JobsOnlySession) EXCEPT !.selected_job = job_id]

\* main.py:93-96
SelectJob(s, job_id) ==
    [(IF s.present THEN s ELSE JobsOnlySession)
        EXCEPT !.selected_job = job_id, !.status = "awaiting_voice"]

\* ConfirmDraft without the test of main.py:105: confirmed in any stage
ConfirmDraft_Unconditional(s) == [s EXCEPT !.status = "confirmed"]

\* main.py:105-106
ConfirmDraft(s) ==
    IF s.status = "awaiting_confirmation" THEN [s EXCEPT !.status = "confirmed"] ELSE s

\* main.py:113-114
RetryDraft(s) ==
    IF s.status = "awaiting_confirmation" THEN [s EXCEPT !.status = "awaiting_voice"] ELSE s

\* main.py:203-204
StoreDraft(s, summary) ==
    [s EXCEPT !.status = "awaiting_confirmation", !.current_summary = summary]

\* AdminBypass that starts the session afresh, as main.py:253-257 would if
\* it ran before the admin check and for every chat
AdminBypass_FreshSession(s) == NewSession

\* AdminBypass that puts a session that is there back to "active"
AdminBypass_StatusActive(s) == IF s.present THEN [s EXCEPT !.status = "active"] ELSE s

\* main.py:235-249: the admin bypass writes nothing to user_state
AdminBypass(s) == s

\* main.py:253-257
EnsureSession(s) == IF s.present THEN s ELSE NewSession

\* main.py:259-330: what a text message that is no admin claim does to the
\* session, "Restart" and "Finish" included: it only makes sure the session is there
TextMessage(s, text) == EnsureSession(s)

(***************************************************************************)
(* History of a chat, kept only when batch.on: base[c] is the session of   *)
(* chat c when an update last arrived while no task of c was suspended,    *)
(* count[c] the number of updates of c received since, that one included   *)
(* (counted up to MaxBatch).  It is read by no action.                     *)
(***************************************************************************)
MaxBatch == 3

Quiet(c) == \A h \in Slots : tasks[h].chat # c

Track(c) ==
    IF ~batch.on THEN UNCHANGED batch
    ELSE IF Quiet(c)
    THEN batch' = [batch EXCEPT !.base[c] = user_state[c], !.count[c] = 1]
    ELSE batch' = [batch EXCEPT !.count[c] = IF @ < MaxBatch THEN @ + 1 ELSE @]

\* history of a voice note that is processed, kept only when batch.on: the
\* job that was selected in chat c when the note was submitted
JobAtSubmission(c) == IF batch.on THEN user_state[c].selected_job ELSE NoJob

(***************************************************************************)
(* Receiving an update: receive_update up to its first await.              *)
(***************************************************************************)
\* main.py:89-102
JobSelected(c, u) ==
    /\ CanReceive
    /\ Branch(u) = "job"
    /\ user_state' = [user_state EXCEPT ![c] = SelectJob(@, JobIdOf(u.data))]
    /\ Start(Sending(c, u, "send_last", VoicePrompt(JobIdOf(u.data))))
    /\ Track(c)
    /\ UNCHANGED openai_client

\* ConfirmJob reading user_state[chat_id]["status"] with no .get: for a chat
\* that has no record the lookup fails and no transition is defined
ConfirmJob_NoRecordUndefined(c, u) ==
    /\ CanReceive
    /\ Branch(u) = "confirm"
    /\ user_state[c].present
    /\ user_state' = [user_state EXCEPT ![c] = ConfirmDraft(@)]
    /\ IF user_state[c].status = "awaiting_confirmation"
       THEN Start(Sending(c, u, "send_last", ConfirmedAck))
       ELSE ReturnAtOnce
    /\ Track(c)
    /\ UNCHANGED openai_client

\* main.py:104-110
ConfirmJob(c, u) ==
    /\ CanReceive
    /\ Branch(u) = "confirm"
    /\ user_state' = [user_state EXCEPT ![c] = ConfirmDraft(@)]
    /\ IF user_state[c].status = "awaiting_confirmation"
       THEN Start(Sending(c, u, "send_last", ConfirmedAck))
       ELSE ReturnAtOnce
    /\ Track(c)
    /\ UNCHANGED openai_client

\* main.py:112-118
RetryJob(c, u) ==
    /\ CanReceive
    /\ Branch(u) = "retry"
    /\ user_state' = [user_state EXCEPT ![c] = RetryDraft(@)]
    /\ IF user_state[c].status = "awaiting_confirmation"
       THEN Start(Sending(c, u, "send_last", RecordAgain))
       ELSE ReturnAtOnce
    /\ Track(c)
    /\ UNCHANGED openai_client

\* main.py:83-120 with data that is none of the three: return at once
IgnoredCallback(c, u) ==
    /\ CanReceive
    /\ Branch(u) = "ignored"
    /\ ReturnAtOnce
    /\ Track(c)
    /\ UNCHANGED <<user_state, openai_client>>

\* VoiceMessage without the test of main.py:143: every voice note is processed
VoiceMessage_AlwaysOrchestrates(c, u) ==
    /\ CanReceive
    /\ Branch(u) = "voice"
    /\ Start(Sending(c, u, "voice_ack", VoiceReceived))
    /\ Track(c)
    /\ UNCHANGED <<user_state, openai_client>>

\* main.py:141-144 and 227-228
VoiceMessage(c, u) ==
    /\ CanReceive
    /\ Branch(u) = "voice"
    /\ IF user_state[c].status = "awaiting_voice"
       THEN Start([Sending(c, u, "voice_ack", VoiceReceived)
                        EXCEPT !.job = JobAtSubmission(c)])
       ELSE Start(Sending(c, u, "send_last", SelectJobFirst))
    /\ Track(c)
    /\ UNCHANGED <<user_state, openai_client>>

\* main.py:235-249
AdminMessage(c, u) ==
    /\ CanReceive
    /\ Branch(u) = "admin"
    /\ user_state' = [user_state EXCEPT ![c] = AdminBypass(@)]
    /\ Start(Sending(c, u, "send_last", AdminNotice))
    /\ Track(c)
    /\ UNCHANGED openai_client

\* main.py:253-279
StartCommand(c, u) ==
    /\ CanReceive
    /\ Branch(u) = "start"
    /\ user_state' = [user_state EXCEPT ![c] = TextMessage(@, u.text)]
    /\ Start(Sending(c, u, "send_last", Welcome))
    /\ Track(c)
    /\ UNCHANGED openai_client

\* main.py:253-257 and 284-298
ViewJobs(c, u) ==
    /\ CanReceive
    /\ Branch(u) = "view_jobs"
    /\ user_state' = [user_state EXCEPT ![c] = TextMessage(@, u.text)]
    /\ Start(Sending(c, u, "menu", JobsHeading))
    /\ Track(c)
    /\ UNCHANGED openai_client

\* main.py:253-257 and 328-330: any other text, "Restart" included
OtherText(c, u) ==
    /\ CanReceive
    /\ Branch(u) = "pass"
    /\ user_state' = [user_state EXCEPT ![c] = TextMessage(@, u.text)]
    /\ ReturnAtOnce
    /\ Track(c)
    /\ UNCHANGED openai_client

(***************************************************************************)
(* Resuming a task at the await it is suspended in.                        *)
(***************************************************************************)
\* main.py:225-226: the except clause of the voice branch
Except(h) == Continue(h, Send(tasks[h], "send_last", ProcessingError))

\* a send outside any try returns (the task returns ok) or raises (the
\* exception leaves receive_update)
SendReturns(h, ok) ==
    /\ tasks[h].pc = "send_last"
    /\ Finish(h, ok)
    /\ UNCHANGED <<user_state, openai_client, batch>>

\* main.py:294-327: the sends of the job list, one after the other
MenuSendReturns(h, ok) ==
    /\ tasks[h].pc = "menu"
    /\ IF ~ok THEN Finish(h, FALSE)
       ELSE IF tasks[h].idx < Len(jobs_data)
       THEN Continue(h, [Send(tasks[h], "menu", JobItem(tasks[h].idx + 1))
                            EXCEPT !.idx = @ + 1])
       ELSE Continue(h, Send(tasks[h], "send_last", JobsFollowUp))
    /\ UNCHANGED <<user_state, openai_client, batch>>

\* main.py:144-152: the send of "Voice note received" is outside the try
VoiceAckReturns(h, ok) ==
    /\ tasks[h].pc = "voice_ack"
    /\ IF ok THEN Continue(h, [tasks[h] EXCEPT !.pc = "get_file"])
       ELSE Finish(h, FALSE)
    /\ UNCHANGED <<user_state, openai_client, batch>>

\* main.py:152-164
GetFileReturns(h, r) ==
    /\ tasks[h].pc = "get_file"
    /\ CASE r = "ok" -> Continue(h, [tasks[h] EXCEPT !.pc = "download"])
         [] r = "not_ok" -> Continue(h, Send(tasks[h], "send_try", FileInfoFailed))
         [] r = "raise" -> Except(h)
    /\ UNCHANGED <<user_state, openai_client, batch>>

\* main.py:164-181
DownloadReturns(h, r) ==
    /\ tasks[h].pc = "download"
    /\ CASE r = "ok" /\ openai_client ->
                Continue(h, [tasks[h] EXCEPT !.pc = "transcribe", !.tmp = "exists"])
         [] r = "ok" /\ ~openai_client ->
                Continue(h, [Send(tasks[h], "send_try", KeyMissing) EXCEPT !.tmp = "exists"])
         [] r = "raise" -> Except(h)
    /\ UNCHANGED <<user_state, openai_client, batch>>

\* main.py:178-198
TranscribeReturns(h, r) ==
    /\ tasks[h].pc = "transcribe"
    /\ CASE r = "ok" -> Continue(h, [tasks[h] EXCEPT !.pc = "summarize", !.tmp = "removed"])
         [] r = "raise" -> Except(h)
    /\ UNCHANGED <<user_state, openai_client, batch>>

\* SummarizeOk with one session shared by all chats instead of
\* user_state[chat_id]: the draft is stored in every record that exists
SummarizeOk_EveryChat(h, summary) ==
    /\ tasks[h].pc = "summarize"
    /\ user_state' = [c \in Chats |->
                        IF c = tasks[h].chat \/ user_state[c].present
                        THEN StoreDraft(user_state[c], summary)
                        ELSE user_state[c]]
    /\ Continue(h, Send(tasks[h], "send_try", Draft(summary)))
    /\ UNCHANGED <<openai_client, batch>>

\* main.py:192-224: the summary arrives and is stored as the draft
SummarizeOk(h, summary) ==
    /\ tasks[h].pc = "summarize"
    /\ user_state' = [user_state EXCEPT ![tasks[h].chat] = StoreDraft(@, summary)]
    /\ Continue(h, Send(tasks[h], "send_try", Draft(summary)))
    /\ UNCHANGED <<openai_client, batch>>

\* main.py:192-198 and 225-226
SummarizeRaises(h) ==
    /\ tasks[h].pc = "summarize"
    /\ Except(h)
    /\ UNCHANGED <<user_state, openai_client, batch>>

\* a send inside the try (main.py:156, 174, 219) returns or raises
SendInTryReturns(h, ok) ==
    /\ tasks[h].pc = "send_try"
    /\ IF ok THEN Finish(h, TRUE) ELSE Except(h)
    /\ UNCHANGED <<user_state, openai_client, batch>>

\* an update of chat c arrives and is handled up to its first await
Receive(c, u) ==
    \/ JobSelected(c, u)
    \/ ConfirmJob(c, u)
    \/ RetryJob(c, u)
    \/ IgnoredCallback(c, u)
    \/ VoiceMessage(c, u)
    \/ AdminMessage(c, u)
    \/ StartCommand(c, u)
    \/ ViewJobs(c, u)
    \/ OtherText(c, u)

\* the await of task h returns or raises, and h runs up to its next await
Resume(h) ==
    \/ \E ok \in BOOLEAN : SendReturns(h, ok)
    \/ \E ok \in BOOLEAN : MenuSendReturns(h, ok)
    \/ \E ok \in BOOLEAN : VoiceAckReturns(h, ok)
    \/ \E r \in {"ok", "not_ok", "raise"} : GetFileReturns(h, r)
    \/ \E r \in {"ok", "raise"} : DownloadReturns(h, r)
    \/ \E r \in {"ok", "raise"} : TranscribeReturns(h, r)
    \/ \E summary \in Summaries : SummarizeOk(h, summary)
    \/ SummarizeRaises(h)
    \/ \E ok \in BOOLEAN : SendInTryReturns(h, ok)

\* one conversation: the updates of one chat, their tasks interleaved
Next ==
    \/ \E u \in Updates : Receive("chatA", u)
    \/ \E h \in Slots : Resume(h)

Spec == Init /\ [][Next]_vars

\* the same program with the history of each chat recorded
InitRace ==
    /\ user_state = [c \in Chats |-> NoSession]
    /\ openai_client \in BOOLEAN
    /\ tasks = [h \in Slots |-> NoTask]
    /\ batch = [on |-> TRUE, base |-> [c \in Chats |-> NoSession], count |-> [c \in Chats |-> 0]]
    /\ reply = "none"

SpecRace == InitRace /\ [][Next]_vars

\* the updates the second chat sends while the first sends any update: it
\* selects a job, submits voice notes and confirms
OtherChatUpdates ==
    { Callback(JobButton(jobs_data[1])),
      Message(TRUE, <<>>, <<>>),
      Callback(<<"confirm", "_", "job">>) }

\* two chats: the tasks of different chats interleaved
NextChats ==
    \/ \E u \in Updates : Receive("chatA", u)
    \/ \E u \in OtherChatUpdates : Receive("chatB", u)
    \/ \E h \in Slots : Resume(h)

SpecChats == Init /\ [][NextChats]_vars

(***************************************************************************)
(* The session as the specification names it.                              *)
(***************************************************************************)
\* the stage of a session; a chat without a record is Idle (created lazily)
Stage(s) ==
    CASE s.status = "awaiting_voice" -> "AwaitingVoice"
      [] s.status = "awaiting_confirmation" -> "AwaitingConfirmation"
      [] s.status = "confirmed" -> "Confirmed"
      [] OTHER -> "Idle"

HasSelectedJob(s) == s.selected_job # NoJob
HasDraft(s) == s.current_summary # Missing

\* task h is running and handles an update of branch b
Handles(h, b) == ~Free(h) /\ Branch(tasks[h].upd) = b


\* task h takes the step: it starts in slot h, or it resumes
Started(h) == Free(h) /\ tasks'[h].pc # "free"
Resumed(h) == ~Free(h) /\ tasks'[h] # tasks[h]

\* the number of failure notices among the messages of sent
RECURSIVE FailureCount(_)
FailureCount(sent) ==
    IF sent = <<>> THEN 0
    ELSE (IF Head(sent) \in FailureNotices THEN 1 ELSE 0) + FailureCount(Tail(sent))

(***************************************************************************)
(* receive_update run alone: the update u of a chat whose session is s is  *)
(* handled with no other task of the chat running meanwhile.  Each outcome *)
(* is the session it leaves and the messages it has sent when it is        *)
(* suspended in a send that no write to the session follows (pc send_try   *)
(* or send_last).                                                          *)
(***************************************************************************)
Outcome(s, sent) == [state |-> s, sent |-> sent]

\* main.py:141-230 run alone
VoiceOutcomes(s) ==
    IF s.status # "awaiting_voice" THEN {Outcome(s, <<SelectJobFirst>>)}
    ELSE
        { Outcome(s, <<VoiceReceived, FileInfoFailed>>),
          Outcome(s, <<VoiceReceived, FileInfoFailed, ProcessingError>>),
          Outcome(s, <<VoiceReceived, ProcessingError>>) }
        \cup
        (IF openai_client
         THEN UNION { { Outcome(StoreDraft(s, m), <<VoiceReceived, Draft(m)>>),
                        Outcome(StoreDraft(s, m), <<VoiceReceived, Draft(m), ProcessingError>>) }
                      : m \in Summaries }
         ELSE { Outcome(s, <<VoiceReceived, KeyMissing>>),
                Outcome(s, <<VoiceReceived, KeyMissing, ProcessingError>>) })

\* main.py:294-327: the heading, one message for each job, the follow-up
JobListMessages ==
    <<JobsHeading>> \o [i \in 1..Len(jobs_data) |-> JobItem(i)] \o <<JobsFollowUp>>

\* main.py:75-332 run alone
Outcomes(s, u) ==
    CASE Branch(u) = "job" ->
            {Outcome(SelectJob(s, JobIdOf(u.data)), <<VoicePrompt(JobIdOf(u.data))>>)}
      [] Branch(u) = "confirm" ->
            {Outcome(ConfirmDraft(s),
                     IF s.status = "awaiting_confirmation" THEN <<ConfirmedAck>> ELSE <<>>)}
      [] Branch(u) = "retry" ->
            {Outcome(RetryDraft(s),
                     IF s.status = "awaiting_confirmation" THEN <<RecordAgain>> ELSE <<>>)}
      [] Branch(u) = "ignored" -> {Outcome(s, <<>>)}
      [] Branch(u) = "voice" -> VoiceOutcomes(s)
      [] Branch(u) = "admin" -> {Outcome(AdminBypass(s), <<AdminNotice>>)}
      [] Branch(u) = "start" -> {Outcome(TextMessage(s, u.text), <<Welcome>>)}
      [] Branch(u) = "view_jobs" -> {Outcome(TextMessage(s, u.text), JobListMessages)}
      [] Branch(u) = "pass" -> {Outcome(TextMessage(s, u.text), <<>>)}

\* u1 handled alone from session s, then u2 handled alone: the session left
\* and what each of the two has sent
Serial(s, u1, u2) ==
    UNION { { [state |-> o2.state, first |-> o1.sent, second |-> o2.sent]
              : o2 \in Outcomes(o1.state, u2) }
            : o1 \in Outcomes(s, u1) }

\* task h has made all its writes to the session
Settled(h) == tasks[h].pc \in {"send_last", "send_try"}

\* a task that ran with no other task of its chat has one of the outcomes of
\* receive_update run alone
AloneMatchesOutcomes ==
    \A h \in Slots :
        (batch.on /\ Settled(h) /\ batch.count[tasks[h].chat] = 1) =>
            Outcome(user_state[tasks[h].chat], tasks[h].sent)
                \in Outcomes(batch.base[tasks[h].chat], tasks[h].upd)

(***************************************************************************)
(* The claims.                                                             *)
(***************************************************************************)

\* C1: in every reachable state and for every chat, selectedJobId is set if
\* and only if the stage is AwaitingVoice, AwaitingConfirmation or Confirmed.
C1_SelectedJobIffStage ==
    \A c \in Chats :
        HasSelectedJob(user_state[c]) <=>
            Stage(user_state[c]) \in {"AwaitingVoice", "AwaitingConfirmation", "Confirmed"}

\* C1 witness: a session went through job selection, voice and confirmation:
\* it is Confirmed with its job selected while the acknowledgement is sent.
C1_Witness ==
    \E c \in Chats :
        /\ Stage(user_state[c]) = "Confirmed"
        /\ HasSelectedJob(user_state[c])
        /\ \E h \in Slots : Handles(h, "confirm") /\ tasks[h].chat = c

\* C2: in every reachable state and for every chat, draftSummary is set if
\* and only if the stage is AwaitingConfirmation or Confirmed.
C2_DraftIffStage ==
    \A c \in Chats :
        HasDraft(user_state[c]) <=>
            Stage(user_state[c]) \in {"AwaitingConfirmation", "Confirmed"}

\* C4: an update that carries an identity claim equal to the admin identity is
\* handled as AdminIdentified whatever else it carries: its task sends the
\* admin notice and nothing else, and never enters the voice orchestration.
C4_AdminPreempts ==
    \A h \in Slots :
        (~Free(h) /\ AdminClaim(tasks[h].upd)) =>
            /\ tasks[h].pc = "send_last"
            /\ tasks[h].sent = <<AdminNotice>>

C6_AdminKeepsJobAndDraft ==
    [][\A h \in Slots :
        ((Started(h) /\ Branch(tasks'[h].upd) = "admin") \/ (Resumed(h) /\ Handles(h, "admin"))) =>
            \A c \in Chats :
                /\ user_state'[c].selected_job = user_state[c].selected_job
                /\ user_state'[c].current_summary = user_state[c].current_summary]_vars

\* C6 witness: an admin update is being handled for a chat that has a
\* selected job and a stored draft.
C6_Witness ==
    \E h \in Slots :
        /\ Handles(h, "admin")
        /\ HasSelectedJob(user_state[tasks[h].chat])
        /\ HasDraft(user_state[tasks[h].chat])

\* C7: the Restart trigger, received in any reachable session, forces the
\* stage to Idle and clears selectedJobId and draftSummary, while the job
\* catalog is kept.
C7_RestartResets ==
    \A c \in Chats :
        LET after == TextMessage(user_state[c], <<"Restart">>)
        IN  /\ Branch(Message(FALSE, <<>>, <<"Restart">>)) = "pass"
            /\ Stage(after) = "Idle"
            /\ ~HasSelectedJob(after)
            /\ ~HasDraft(after)
            /\ after.jobs = get_initial_jobs

\* C8: from every reachable session, Restart applied twice gives the session
\* Restart applied once gives, and that session is Idle with no selected job.
C8_RestartIdempotent ==
    \A c \in Chats :
        LET once == TextMessage(user_state[c], <<"Restart">>)
            twice == TextMessage(once, <<"Restart">>)
        IN  /\ twice = once
            /\ Stage(once) = "Idle"
            /\ ~HasSelectedJob(once)

\* C9: ConfirmationChoice(retry) handled in AwaitingConfirmation sets the stage
\* to AwaitingVoice, clears draftSummary, keeps selectedJobId and emits one
\* "record again" prompt.
C9_RetryClearsDraft ==
    [][\A h \in Slots :
        (Started(h) /\ Branch(tasks'[h].upd) = "retry"
            /\ Stage(user_state[tasks'[h].chat]) = "AwaitingConfirmation") =>
            LET c == tasks'[h].chat
            IN  /\ Stage(user_state'[c]) = "AwaitingVoice"
                /\ ~HasDraft(user_state'[c])
                /\ user_state'[c].selected_job = user_state[c].selected_job
                /\ tasks'[h].sent = <<RecordAgain>>]_vars

\* a voice task whose orchestration has failed: it has sent a failure notice
\* and no draft
OrchestrationFailed(t) ==
    /\ Branch(t.upd) = "voice"
    /\ FailureCount(t.sent) >= 1
    /\ \A i \in 1..Len(t.sent) : t.sent[i].kind # "draft"

\* C10: a voice update handled in AwaitingVoice whose orchestration fails
\* leaves the session unchanged and emits exactly one failure notice: the
\* step in which the orchestration fails, and every later step of the task,
\* writes nothing to user_state and leaves the task with one failure notice.
C10_FailureLeavesSessionOneNotice ==
    [][\A h \in Slots :
        (Resumed(h) /\ tasks'[h].pc # "free" /\ OrchestrationFailed(tasks'[h])) =>
            /\ user_state' = user_state
            /\ FailureCount(tasks'[h].sent) = 1]_vars

\* C3: two updates of one chat whose tasks overlap in time leave the session
\* and the outbound messages that handling the two one after the other, in
\* one of the two orders, leaves.
C3_OverlapIsSerial ==
    \A h1 \in Slots, h2 \in Slots :
        (/\ batch.on
         /\ h1 # h2
         /\ Settled(h1) /\ Settled(h2)
         /\ tasks[h1].chat = tasks[h2].chat
         /\ batch.count[tasks[h1].chat] = 2) =>
            LET c == tasks[h1].chat
                got == [state |-> user_state[c], first |-> tasks[h1].sent,
                        second |-> tasks[h2].sent]
                swapped == [state |-> user_state[c], first |-> tasks[h2].sent,
                            second |-> tasks[h1].sent]
            IN  \/ got \in Serial(batch.base[c], tasks[h1].upd, tasks[h2].upd)
                \/ swapped \in Serial(batch.base[c], tasks[h2].upd, tasks[h1].upd)


\* task h returns or raises in this step: receive_update is left
Finished(h) == ~Free(h) /\ tasks'[h].pc = "free"

\* C11: the temporary file that holds the voice bytes is released on every
\* exit path: when the handling of a voice update has finished, the file
\* created for it no longer exists.
C11_TempFileReleased ==
    [][\A h \in Slots : Finished(h) => tasks[h].tmp # "exists"]_vars


\* C12: the ingestion endpoint acknowledges every inbound update whatever the
\* internal outcome: no request ends with an error response to the platform.
C12_AlwaysAcknowledged == reply # "error"


Stages == {"Idle", "AwaitingVoice", "AwaitingConfirmation", "Confirmed"}

\* C13: the transition is total: in every reachable session (a chat with no
\* record included) every update variant has a defined handling, that is a
\* next session and a list of outbound actions, and every task that is
\* suspended can run on until it ends.
C13_TransitionTotal ==
    /\ \A c \in Chats : Stage(user_state[c]) \in Stages
    /\ \A c \in Chats, u \in Updates : CanReceive => ENABLED Receive(c, u)
    /\ \A h \in Slots : ~Free(h) => ENABLED Resume(h)

\* C13 witness: an update that the stage does not expect has been handled: a
\* voice note in stage Confirmed got the "select a job first" notice.
C13_Witness ==
    \E h \in Slots :
        /\ Handles(h, "voice")
        /\ Stage(user_state[tasks[h].chat]) = "Confirmed"
        /\ tasks[h].sent = <<SelectJobFirst>>


\* C14: chats are isolated: the session record of a chat changes only in a
\* step of the handling of an update of that same chat (its start or a later
\* resumption, failing or not); so the handling of an update of one chat
\* leaves the record of every other chat unchanged, however the tasks of the
\* two chats interleave.
C14_ChatsIsolated ==
    [][\A d \in Chats :
        user_state'[d] # user_state[d] =>
            \/ \E u \in Updates : Receive(d, u)
            \/ \E h \in Slots : tasks[h].chat = d /\ Resume(h)]_vars

\* C14 witness: the processing of a voice note of chatA has failed while
\* chatB holds a draft that awaits confirmation.
C14_Witness ==
    \E h \in Slots :
        /\ tasks[h].chat = "chatA"
        /\ ProcessingError \in {tasks[h].sent[i] : i \in DOMAIN tasks[h].sent}
        /\ Stage(user_state["chatB"]) = "AwaitingConfirmation"
        /\ HasDraft(user_state["chatB"])


\* C15: handling the press of the button of job id leaves the chat in stage
\* AwaitingVoice with id, the payload's job token without its blanks, as the
\* selected job, in a record that exists (created if the chat had none, kept
\* otherwise but for stage and selected job), and the task emits the prompt for
\* a voice note for that id and, as long as it runs, nothing else.
C15_JobSelected ==
    [][\A h \in Slots, i \in DOMAIN jobs_data :
        LET c == tasks'[h].chat
            id == jobs_data[i]
        IN  /\ Started(h) /\ tasks'[h].upd = Callback(JobButton(id)) =>
                /\ Stage(user_state'[c]) = "AwaitingVoice"
                /\ user_state'[c].selected_job = id
                /\ user_state'[c].present
                /\ user_state'[c].jobs = get_initial_jobs
                /\ user_state[c].present =>
                        user_state'[c].current_summary = user_state[c].current_summary
                /\ tasks'[h].sent = <<VoicePrompt(id)>>
            /\ Resumed(h) /\ tasks[h].upd = Callback(JobButton(id)) =>
                /\ tasks[h].sent = <<VoicePrompt(id)>>
                /\ Finished(h)]_vars

\* C15 witness: the button of the first job was pressed in a chat that had no
\* record: the record exists, and the prompt is being sent.
C15_Witness ==
    \E h \in Slots :
        /\ tasks[h].upd = Callback(JobButton(jobs_data[1]))
        /\ tasks[h].sent = <<VoicePrompt(jobs_data[1])>>
        /\ user_state[tasks[h].chat] = SelectJob(NoSession, jobs_data[1])


\* C16: the accept choice handled in stage AwaitingConfirmation sets the stage
\* to Confirmed, keeps the selected job and the draft and emits the
\* acknowledgement and nothing else; handled in any other stage, or for a chat
\* with no record, it changes no session and starts no task, so it emits
\* nothing; and a stage becomes Confirmed only in such a step.
C16_ConfirmOnlyFromAwaitingConfirmation ==
    [][/\ \A h \in Slots :
            LET c == tasks'[h].chat IN
            /\ Started(h) /\ Branch(tasks'[h].upd) = "confirm" =>
                /\ Stage(user_state[c]) = "AwaitingConfirmation"
                /\ user_state'[c] = [user_state[c] EXCEPT !.status = "confirmed"]
                /\ HasSelectedJob(user_state'[c]) /\ HasDraft(user_state'[c])
                /\ tasks'[h].sent = <<ConfirmedAck>>
            /\ Resumed(h) /\ Branch(tasks[h].upd) = "confirm" =>
                /\ tasks[h].sent = <<ConfirmedAck>>
                /\ Finished(h)
       /\ \A c \in Chats :
            /\ Stage(user_state[c]) # "AwaitingConfirmation"
            /\ ConfirmJob(c, Callback(<<"confirm", "_", "job">>))
            => UNCHANGED <<user_state, tasks>>
       /\ \A c \in Chats :
            /\ Stage(user_state'[c]) = "Confirmed"
            /\ Stage(user_state[c]) # "Confirmed"
            => /\ Stage(user_state[c]) = "AwaitingConfirmation"
               /\ \E h \in Slots :
                    /\ Started(h)
                    /\ tasks'[h].chat = c
                    /\ Branch(tasks'[h].upd) = "confirm"]_vars

\* C16 witness: the draft was accepted: the stage is Confirmed, job and draft
\* are there, and the acknowledgement is being sent.
C16_Witness ==
    \E h \in Slots :
        /\ Handles(h, "confirm")
        /\ tasks[h].sent = <<ConfirmedAck>>
        /\ Stage(user_state[tasks[h].chat]) = "Confirmed"
        /\ HasSelectedJob(user_state[tasks[h].chat])
        /\ HasDraft(user_state[tasks[h].chat])


\* C17: a voice note handled in a stage other than AwaitingVoice, or for a chat
\* with no record, changes no session, starts no download, transcription or
\* summary, and emits the "select a job first" notice and nothing else: the
\* task it starts waits in that one send and ends when the send returns.
C17_VoiceOutsideAwaitingVoice ==
    [][\A h \in Slots :
        /\ /\ Started(h)
           /\ Branch(tasks'[h].upd) = "voice"
           /\ Stage(user_state[tasks'[h].chat]) # "AwaitingVoice"
           => /\ user_state' = user_state
              /\ tasks'[h] = Sending(tasks'[h].chat, tasks'[h].upd, "send_last", SelectJobFirst)
        /\ /\ Resumed(h)
           /\ Branch(tasks[h].upd) = "voice"
           /\ tasks[h].sent[1] = SelectJobFirst
           => /\ tasks[h].sent = <<SelectJobFirst>>
              /\ tasks[h].tmp = "none"
              /\ Finished(h)
              /\ user_state' = user_state]_vars

\* C17 witness: a voice note arrived in a chat with no record and the notice
\* is being sent.
C17_Witness ==
    \E h \in Slots :
        /\ Handles(h, "voice")
        /\ tasks[h].sent = <<SelectJobFirst>>
        /\ ~user_state[tasks[h].chat].present


\* C18: whenever a session has a selected job, its value is the id of a job
\* of that session's catalog.
C18_SelectedJobInCatalog ==
    \A c \in Chats :
        HasSelectedJob(user_state[c]) =>
            user_state[c].selected_job \in CatalogIds(user_state[c].jobs)


\* C19: once the stage of a session is Confirmed, a step changes its stage or
\* its draft only if it is the handling of a later job selection; a voice
\* note submitted before the confirmation does not.
C19_ConfirmedChangesOnlyByJobSelected ==
    [][\A c \in Chats :
        /\ Stage(user_state[c]) = "Confirmed"
        /\ \/ Stage(user_state'[c]) # "Confirmed"
           \/ user_state'[c].current_summary # user_state[c].current_summary
        => \E h \in Slots :
              /\ Started(h)
              /\ tasks'[h].chat = c
              /\ Branch(tasks'[h].upd) = "job"]_vars


\* C20: the draft of a session that awaits confirmation is the summary of a
\* voice note submitted while the selected job had its current value: in the
\* step that stores the summary of a voice note as the draft, the selected job
\* of the session is the job that was selected when the note was submitted.
C20_DraftBelongsToSelectedJob ==
    [][\A h \in Slots :
        tasks[h].pc = "summarize" /\ tasks'[h].pc = "send_try" =>
            /\ Stage(user_state'[tasks[h].chat]) = "AwaitingConfirmation"
            /\ user_state'[tasks[h].chat].selected_job = tasks[h].job]_vars

====
